---- MODULE Spec2Model ----
(***************************************************************************)
(* A model of post_to_telegram.py: the dedup store (load / save / mark),   *)
(* the freshness and duplicate-content filters, and the main run loop.     *)
(*                                                                         *)
(* Text is a sequence of one-character strings.  Time is counted in whole  *)
(* hours; an ISO timestamp string is modelled by the number whose order is *)
(* the string's lexicographic order.  hashlib.md5 is modelled as the       *)
(* injective tagging <<"md5", text>> of the normalised text (collisions of *)
(* md5 are not modelled).  A Python dict is a sequence of [link, info]     *)
(* pairs with distinct links, in insertion order.                          *)
(***************************************************************************)
EXTENDS Integers, Sequences, FiniteSets, TLC

----------------------------------------------------------------------------
(* Program constants.                                                      *)

\* MAX_ARTICLE_AGE_HOURS = 48 (line 33)
MAX_ARTICLE_AGE_HOURS == 48
\* MIN_CONTENT_LENGTH = 100 (line 35)
MIN_CONTENT_LENGTH == 100

(* Scaled stand-ins for program constants, kept as bounds of the model:    *)
(* MAX_ENTRIES_TO_PROCESS is 10 in the source (line 29) and MAX_RECORDS is *)
(* the literal 2000 of save_posted_links (lines 60 and 67).  The scaled    *)
(* values keep MAX_ENTRIES_TO_PROCESS <= MAX_RECORDS, as 10 <= 2000 does,  *)
(* so that one run can never push its own records out of a store whose     *)
(* other timestamps are older.                                             *)
MAX_ENTRIES_TO_PROCESS == 2
MAX_RECORDS == 2

(* Bounds of the model.                                                    *)
\* longest feed returned by feedparser.parse
MaxFeed == 3
\* hours that may pass between two invocations of the script
MaxTicks == 1
\* number of scheduled invocations of the script
MaxRuns == 2

\* the wall clock (in hours) at the start of the first run; every modelled
\* publish date lies after hour 0
StartTime == MAX_ARTICLE_AGE_HOURS + 2

----------------------------------------------------------------------------
(* Text and the content fingerprint.                                       *)

Space == " "

\* str.lower() on one character
Lower(c) == CASE c = "A" -> "a" [] c = "B" -> "b" [] OTHER -> c

\* \w of Python's re on str: letters, digits and the underscore
IsWordChar(c) == c \in {"a", "b", "A", "B", "x", "1", "_"}

\* \s of Python's re
IsSpaceChar(c) == c = Space

RECURSIVE MapLower(_)
MapLower(s) == IF s = <<>> THEN <<>> ELSE <<Lower(Head(s))>> \o MapLower(Tail(s))

\* re.sub(r'[^\w\s]', '', s)
RECURSIVE StripSpecial(_)
StripSpecial(s) ==
    IF s = <<>> THEN <<>>
    ELSE IF IsWordChar(Head(s)) \/ IsSpaceChar(Head(s))
         THEN <<Head(s)>> \o StripSpecial(Tail(s))
         ELSE StripSpecial(Tail(s))

\* re.sub(r'\s+', ' ', s)
RECURSIVE CollapseSpaces(_)
CollapseSpaces(s) ==
    IF s = <<>> THEN <<>>
    ELSE IF IsSpaceChar(Head(s))
         THEN IF Tail(s) # <<>> /\ IsSpaceChar(Head(Tail(s)))
              THEN CollapseSpaces(Tail(s))
              ELSE <<Space>> \o CollapseSpaces(Tail(s))
         ELSE <<Head(s)>> \o CollapseSpaces(Tail(s))

RECURSIVE LStrip(_)
LStrip(s) == IF s # <<>> /\ IsSpaceChar(Head(s)) THEN LStrip(Tail(s)) ELSE s

RECURSIVE RStrip(_)
RStrip(s) ==
    IF s # <<>> /\ IsSpaceChar(s[Len(s)]) THEN RStrip(SubSeq(s, 1, Len(s) - 1)) ELSE s

\* str.strip()
Strip(s) == RStrip(LStrip(s))

\* the two re.sub calls and strip() of generate_content_hash
Normalize(title, summary) ==
    Strip(CollapseSpaces(StripSpecial(MapLower(title \o <<Space>> \o summary))))

Md5(text) == <<"md5", text>>

generate_content_hash(title, summary) == Md5(Normalize(title, summary))

----------------------------------------------------------------------------
(* The state file and the in-memory store.                                 *)

\* Python None, JSON null, and a key that is not in the record
None == <<"None">>
JNull == <<"null">>
Absent == <<"absent">>

\* "if stored_hash" : None and a missing key are falsy, an md5 digest is not
Truthy(h) == h # None /\ h # Absent

\* info.get('hash')
GetHash(info) == IF info.hash = Absent THEN None ELSE info.hash

Links(d) == {d[k].link : k \in DOMAIN d}

\* posted_links[link] = info : an existing key keeps its place, a new one goes last
DictSet(d, link, info) ==
    IF link \in Links(d)
    THEN [k \in DOMAIN d |-> IF d[k].link = link THEN [link |-> link, info |-> info] ELSE d[k]]
    ELSE Append(d, [link |-> link, info |-> info])

\* contents of the state file
FileMissing == [kind |-> "missing", s |-> "", members |-> <<>>]
\* not JSON at all: json.load raises JSONDecodeError (also a file truncated by a failed write)
FileInvalid == [kind |-> "invalid", s |-> "", members |-> <<>>]
\* valid JSON that is an array (a number, true or null behave alike)
FileList == [kind |-> "list", s |-> "", members |-> <<>>]
\* the oldest format: the file is one JSON string, the last posted link
FileString(link) == [kind |-> "string", s |-> link, members |-> <<>>]
FileObject(members) == [kind |-> "object", s |-> "", members |-> members]

\* one member of the JSON object, as read by json.load
JsonToInfo(v) ==
    IF v.legacy
    THEN [timestamp |-> v.timestamp, hash |-> None]
    ELSE [timestamp |-> v.timestamp, hash |-> IF v.hash = JNull THEN None ELSE v.hash]

\* a variant of InfoToJson that writes the old format, the bare timestamp
InfoToJsonOldFormat(info) ==
    [legacy |-> TRUE, timestamp |-> info.timestamp, hash |-> Absent]

\* one record of the dict, as written by json.dump
InfoToJson(info) ==
    [legacy |-> FALSE, timestamp |-> info.timestamp,
     hash |-> IF info.hash = None THEN JNull ELSE info.hash]

load_posted_links(f, clock) ==
    CASE f.kind = "missing" -> [raised |-> FALSE, value |-> <<>>]
      [] f.kind = "invalid" -> [raised |-> FALSE, value |-> <<>>]
      [] f.kind = "string" ->
            [raised |-> FALSE,
             value |-> <<[link |-> f.s, info |-> [timestamp |-> clock, hash |-> None]]>>]
      [] f.kind = "object" ->
            [raised |-> FALSE,
             value |-> [k \in DOMAIN f.members |->
                          [link |-> f.members[k].link,
                           info |-> JsonToInfo(f.members[k].value)]]]
      \* data.items() on a list: AttributeError, which the except clause does not name
      [] OTHER -> [raised |-> TRUE, value |-> <<>>]

\* sorted(..., key=timestamp, reverse=True): stable, equal keys keep their order
RECURSIVE InsertDesc(_, _)
InsertDesc(sorted, x) ==
    IF sorted = <<>> THEN <<x>>
    ELSE IF Head(sorted).info.timestamp >= x.info.timestamp
         THEN <<Head(sorted)>> \o InsertDesc(Tail(sorted), x)
         ELSE <<x>> \o sorted

RECURSIVE SortedDesc(_)
SortedDesc(d) ==
    IF d = <<>> THEN <<>>
    ELSE InsertDesc(SortedDesc(SubSeq(d, 1, Len(d) - 1)), d[Len(d)])

\* a variant of Pruned that cuts the dict without sorting it first
PrunedUnsorted(links_dict) ==
    IF Len(links_dict) > MAX_RECORDS
    THEN SubSeq(links_dict, 1, MAX_RECORDS)
    ELSE links_dict

\* the dict that save_posted_links writes
Pruned(links_dict) ==
    IF Len(links_dict) > MAX_RECORDS
    THEN SubSeq(SortedDesc(links_dict), 1, MAX_RECORDS)
    ELSE links_dict

\* the file content after a completed save_posted_links(links_dict)
save_posted_links(links_dict) ==
    FileObject([k \in DOMAIN Pruned(links_dict) |->
                  [link |-> Pruned(links_dict)[k].link,
                   value |-> InfoToJson(Pruned(links_dict)[k].info)]])

\* the dict that mark_as_posted hands to save_posted_links
Marked(d, link, title, summary, clock) ==
    DictSet(d, link, [timestamp |-> clock, hash |-> generate_content_hash(title, summary)])

\* a variant of is_duplicate_content that hashes the title alone
is_duplicate_content_title_only(title, summary, posted_links) ==
    \E k \in DOMAIN posted_links :
        /\ Truthy(GetHash(posted_links[k].info))
        /\ GetHash(posted_links[k].info) = generate_content_hash(title, <<>>)

is_duplicate_content(title, summary, posted_links) ==
    \E k \in DOMAIN posted_links :
        /\ Truthy(GetHash(posted_links[k].info))
        /\ GetHash(posted_links[k].info) = generate_content_hash(title, summary)

----------------------------------------------------------------------------
(* Feed entries, publish dates and freshness.                              *)

\* one date attribute of an entry: missing or empty, present but not
\* convertible (datetime(...) or parsedate_to_datetime raises), or a date
NoDate == [k |-> "absent", t |-> 0]
BadDate == [k |-> "bad", t |-> 0]
DateAt(t) == [k |-> "time", t |-> t]

\* date_fields followed by date_string_fields, in the order they are tried:
\* published_parsed, updated_parsed, created_parsed, published, updated, created
RECURSIVE FirstDate(_)
FirstDate(dates) ==
    IF dates = <<>> THEN [found |-> FALSE, t |-> 0]
    ELSE IF Head(dates).k = "time" THEN [found |-> TRUE, t |-> Head(dates).t]
         ELSE FirstDate(Tail(dates))

get_article_publish_date(entry) == FirstDate(entry.dates)

\* a variant of is_article_fresh that rejects an age of exactly max_hours
is_article_fresh_strict(entry, clock) ==
    IF ~get_article_publish_date(entry).found THEN TRUE
    ELSE ~(clock - get_article_publish_date(entry).t >= MAX_ARTICLE_AGE_HOURS)

is_article_fresh(entry, clock) ==
    IF ~get_article_publish_date(entry).found THEN TRUE
    ELSE ~(clock - get_article_publish_date(entry).t > MAX_ARTICLE_AGE_HOURS)

\* text that the article page may offer (og:description, meta description)
PageTexts == {<<"x">>}

\* the summaries extract_rich_summary can return for an entry: the feed's own
\* summary, or, when that is shorter than MIN_CONTENT_LENGTH and the page
\* can be fetched, a longer description taken from the page
extract_rich_summary(entry) ==
    IF Len(entry.summary) < MIN_CONTENT_LENGTH
    THEN {entry.summary} \cup {d \in PageTexts : Len(d) > Len(entry.summary)}
    ELSE {entry.summary}

\* the feed entries of the model; title and summary are the texts after clean_html
EntryLinks == {"u1", "u2"}
\* "A!" and the stored text "a" normalise alike, "b" is another story
EntryTitles == {<<"A", "!">>, <<"b">>}
NoDates == <<NoDate, NoDate, NoDate, NoDate, NoDate, NoDate>>
\* an entry dated exactly MAX_ARTICLE_AGE_HOURS before the first run
EdgeDates == <<DateAt(StartTime - MAX_ARTICLE_AGE_HOURS), NoDate, NoDate, NoDate, NoDate, NoDate>>
\* other date attributes: nothing parseable; one hour too old; a date string
\* behind an unusable struct; two attributes that disagree, either way round
OtherDates ==
    {<<BadDate, NoDate, NoDate, BadDate, NoDate, NoDate>>,
     <<DateAt(StartTime - MAX_ARTICLE_AGE_HOURS - 1), NoDate, NoDate, NoDate, NoDate, NoDate>>,
     <<BadDate, NoDate, NoDate, NoDate, NoDate, DateAt(StartTime - MAX_ARTICLE_AGE_HOURS - 1)>>,
     <<NoDate, DateAt(StartTime - 1), NoDate, DateAt(StartTime - MAX_ARTICLE_AGE_HOURS - 1), NoDate, NoDate>>,
     <<NoDate, DateAt(StartTime - MAX_ARTICLE_AGE_HOURS - 1), NoDate, DateAt(StartTime - 1), NoDate, NoDate>>}

Entries ==
    [has_link : {TRUE}, link : EntryLinks, has_title : {TRUE}, title : EntryTitles,
     summary : {<<>>}, dates : {NoDates, EdgeDates}]
    \cup
    [has_link : {TRUE}, link : {"u1"}, has_title : {TRUE}, title : {<<"b">>},
     summary : {<<>>}, dates : OtherDates]
    \cup
    \* an entry without a link, and one without a title
    {[has_link |-> FALSE, link |-> "", has_title |-> TRUE, title |-> <<"b">>,
      summary |-> <<>>, dates |-> NoDates],
     [has_link |-> TRUE, link |-> "u1", has_title |-> FALSE, title |-> <<>>,
      summary |-> <<>>, dates |-> NoDates]}

NoEntry ==
    [has_link |-> FALSE, link |-> "", has_title |-> FALSE, title |-> <<>>,
     summary |-> <<>>, dates |-> <<>>]

----------------------------------------------------------------------------
(* State files the first run may find.                                     *)

StoreLinks == <<"o1", "o2", "u1", "o3", "o4">>

\* records a state file may hold: a bare timestamp string (old format), a
\* current record, a record whose hash is null, one without a hash key; with
\* timestamps before, at and after the clock of the first run
RunRecords ==
    {[legacy |-> TRUE, timestamp |-> StartTime - 1, hash |-> Absent],
     [legacy |-> FALSE, timestamp |-> StartTime - 1, hash |-> Md5(<<"a">>)],
     [legacy |-> FALSE, timestamp |-> StartTime + 5, hash |-> JNull]}

JsonRecords ==
    RunRecords \cup {[legacy |-> FALSE, timestamp |-> StartTime, hash |-> Absent]}

\* the strictly increasing index sequences of length len over 1..top
RECURSIVE IncreasingSeqs(_, _)
IncreasingSeqs(len, top) ==
    IF len = 0 THEN {<<>>}
    ELSE UNION {{Append(s, j) : s \in IncreasingSeqs(len - 1, j - 1)} : j \in len..top}

ObjectsOfSize(len, links, records) ==
    UNION {{[k \in 1..len |-> [link |-> links[idxs[k]], value |-> recs[k]]] :
              recs \in [1..len -> records]} :
           idxs \in IncreasingSeqs(len, Len(links))}

\* the JSON objects of at most maxlen members, keyed by links in their order
ObjectFiles(maxlen, links, records) ==
    {FileObject(m) : m \in UNION {ObjectsOfSize(len, links, records) : len \in 0..maxlen}}

OtherFiles == {FileMissing, FileInvalid, FileList, FileString("u1")}

----------------------------------------------------------------------------
(* The script as a state machine.                                          *)

VARIABLES
    file,                   \* content of STATE_FILE on disk
    posted_links,           \* the dict main loads once (line 704)
    pc,                     \* where the script is
    feed_len,               \* len(feed.entries)
    n_entries,              \* len(entries_to_process)
    idx,                    \* i of the for loop
    new_posts_count,
    skipped_duplicate_url,
    exit_code,              \* the process's exit status, -1 while it runs
    now,                    \* datetime.now(), in hours
    run,                    \* which invocation of the script this is
    cur,                    \* the entry last taken from the feed, the summary
                            \* extracted for it and what was decided for it
    delivered,              \* links sent successfully by this run, in order
    delivered_before,       \* links sent successfully by earlier runs
    trail,                  \* store operations applied so far (store specification)
    saved,                  \* the dict handed to the last save_posted_links
    load_raised,            \* load_posted_links raised to its caller
    file0,                  \* the state file before the first store operation
    skipped_old,            \* set to 0 at line 734
    skipped_duplicate_content,  \* set to 0 at line 736
    sleeps,                 \* how often this run has called time.sleep(POST_DELAY)
    hashed                  \* the (title, summary) pairs fingerprinted so far
                            \* (fingerprint specification)

vars ==
    <<file, posted_links, pc, feed_len, n_entries, idx, new_posts_count,
      skipped_duplicate_url, exit_code, now, run, cur, delivered, delivered_before,
      trail, saved, load_raised, file0, skipped_old, skipped_duplicate_content, sleeps,
      hashed>>

\* variables only the store specification changes
store_vars == <<trail, saved, load_raised, file0>>

\* the counters main sets to 0 (lines 734 and 736) and no statement changes
unused_counters == <<skipped_old, skipped_duplicate_content>>

\* variables only the run changes
run_vars ==
    <<pc, feed_len, n_entries, idx, new_posts_count, skipped_duplicate_url, exit_code,
      run, cur, delivered, delivered_before, skipped_old, skipped_duplicate_content, sleeps>>

NoCur == [entry |-> NoEntry, summary |-> <<>>, outcome |-> "none"]

Min(a, b) == IF a < b THEN a ELSE b

Terminated == pc \in {"exited", "done", "crashed"}

\* the state files the first run may find: what an earlier run (of this or of
\* an older version) wrote, so an object holds at most MAX_RECORDS records
InitFiles == ObjectFiles(MAX_RECORDS, <<"o1", "o2", "u1">>, RunRecords) \cup OtherFiles

StartOfRun ==
    /\ pc = "parse"
    /\ posted_links = <<>>
    /\ feed_len = 0
    /\ n_entries = 0
    /\ idx = 0
    /\ new_posts_count = 0
    /\ skipped_duplicate_url = 0
    /\ exit_code = -1
    /\ cur = NoCur
    /\ delivered = <<>>
    /\ skipped_old = 0
    /\ skipped_duplicate_content = 0
    /\ sleeps = 0

NoStoreOps ==
    /\ trail = <<>>
    /\ saved = <<>>
    /\ load_raised = FALSE
    /\ hashed = <<>>

Init ==
    /\ file \in InitFiles
    /\ file0 = file
    /\ now = StartTime
    /\ run = 1
    /\ delivered_before = {}
    /\ StartOfRun
    /\ NoStoreOps

\* lines 695-699: the feed has no entries
ParseFeedEmpty ==
    /\ pc = "parse"
    /\ pc' = "exited"
    /\ exit_code' = 0
    /\ UNCHANGED <<store_vars, hashed, unused_counters, sleeps,
                   file, posted_links, feed_len, n_entries, idx, new_posts_count,
                   skipped_duplicate_url, now, run, cur, delivered, delivered_before>>

\* lines 695-701: the feed has entries
ParseFeed ==
    /\ pc = "parse"
    /\ \E n \in 1..MaxFeed : feed_len' = n
    /\ pc' = "load"
    /\ UNCHANGED <<store_vars, hashed, unused_counters, sleeps,
                   file, posted_links, n_entries, idx, new_posts_count,
                   skipped_duplicate_url, exit_code, now, run, cur, delivered,
                   delivered_before>>

\* line 704
LoadState ==
    /\ pc = "load"
    /\ ~load_posted_links(file, now).raised
    /\ posted_links' = load_posted_links(file, now).value
    /\ pc' = "health"
    /\ UNCHANGED <<store_vars, hashed, unused_counters, sleeps,
                   file, feed_len, n_entries, idx, new_posts_count,
                   skipped_duplicate_url, exit_code, now, run, cur, delivered,
                   delivered_before>>

\* line 704, load_posted_links raises: the script ends with a traceback
LoadStateRaises ==
    /\ pc = "load"
    /\ load_posted_links(file, now).raised
    /\ pc' = "crashed"
    /\ exit_code' = 1
    /\ UNCHANGED <<store_vars, hashed, unused_counters, sleeps,
                   file, posted_links, feed_len, n_entries, idx, new_posts_count,
                   skipped_duplicate_url, now, run, cur, delivered, delivered_before>>

\* lines 713-736: getMe answers ok; the loop is set up
HealthCheckOk ==
    /\ pc = "health"
    /\ pc' = "loop"
    /\ n_entries' = Min(feed_len, MAX_ENTRIES_TO_PROCESS)
    /\ idx' = 0
    /\ new_posts_count' = 0
    /\ skipped_old' = 0
    /\ skipped_duplicate_url' = 0
    /\ skipped_duplicate_content' = 0
    /\ UNCHANGED <<store_vars, hashed, sleeps,
                   file, posted_links, feed_len, exit_code, now, run, cur, delivered,
                   delivered_before>>

\* lines 713-727: getMe fails (not ok, an HTTP error, a timeout)
HealthCheckFails ==
    /\ pc = "health"
    /\ pc' = "exited"
    /\ exit_code' = 1
    /\ UNCHANGED <<store_vars, hashed, unused_counters, sleeps,
                   file, posted_links, feed_len, n_entries, idx, new_posts_count,
                   skipped_duplicate_url, now, run, cur, delivered, delivered_before>>

InLoop == pc = "loop" /\ idx < n_entries

\* lines 739, 743, 576: entry.link or entry.title is missing, AttributeError
EntryRaises ==
    /\ InLoop
    /\ \E e \in Entries :
        /\ (~e.has_link \/ ~e.has_title)
        /\ cur' = [entry |-> e, summary |-> <<>>, outcome |-> "Raised"]
    /\ pc' = "crashed"
    /\ exit_code' = 1
    /\ UNCHANGED <<store_vars, hashed, unused_counters, sleeps,
                   file, posted_links, feed_len, n_entries, idx, new_posts_count,
                   skipped_duplicate_url, now, run, delivered, delivered_before>>

\* lines 739-746
UrlSkip ==
    /\ InLoop
    /\ \E e \in Entries :
        /\ e.has_link /\ e.has_title
        /\ e.link \in Links(posted_links)
        /\ cur' = [entry |-> e, summary |-> <<>>, outcome |-> "SkipDuplicateUrl"]
    /\ skipped_duplicate_url' = skipped_duplicate_url + 1
    /\ idx' = idx + 1
    /\ UNCHANGED <<store_vars, hashed, unused_counters, sleeps,
                   file, posted_links, pc, feed_len, n_entries, new_posts_count,
                   exit_code, now, run, delivered, delivered_before>>

\* lines 749, 576-587: post_to_telegram returns False for an old article
SkipOld ==
    /\ InLoop
    /\ \E e \in Entries :
        /\ e.has_link /\ e.has_title
        /\ e.link \notin Links(posted_links)
        /\ ~is_article_fresh(e, now)
        /\ cur' = [entry |-> e, summary |-> <<>>, outcome |-> "SkipOld"]
    /\ idx' = idx + 1
    /\ UNCHANGED <<store_vars, hashed, unused_counters, sleeps,
                   file, posted_links, pc, feed_len, n_entries, new_posts_count,
                   skipped_duplicate_url, exit_code, now, run, delivered,
                   delivered_before>>

\* what post_to_telegram has in hand at line 594: a fresh entry with a new
\* link, its summary s, and the store as load_posted_links just read it
AtContentCheck(e, s) ==
    /\ e.has_link /\ e.has_title
    /\ e.link \notin Links(posted_links)
    /\ is_article_fresh(e, now)
    /\ s \in extract_rich_summary(e)
    /\ ~load_posted_links(file, now).raised

\* lines 589-596: post_to_telegram returns False for duplicate content
SkipDuplicateContent ==
    /\ InLoop
    /\ \E e \in Entries : \E s \in extract_rich_summary(e) :
        /\ AtContentCheck(e, s)
        /\ is_duplicate_content(e.title, s, load_posted_links(file, now).value)
        /\ cur' = [entry |-> e, summary |-> s, outcome |-> "SkipDuplicateContent"]
    /\ idx' = idx + 1
    /\ UNCHANGED <<store_vars, hashed, unused_counters, sleeps,
                   file, posted_links, pc, feed_len, n_entries, new_posts_count,
                   skipped_duplicate_url, exit_code, now, run, delivered,
                   delivered_before>>

\* a variant of SendFails that marks the entry as posted all the same
SendFailsButMarks ==
    /\ InLoop
    /\ \E e \in Entries : \E s \in extract_rich_summary(e) :
        /\ AtContentCheck(e, s)
        /\ ~is_duplicate_content(e.title, s, load_posted_links(file, now).value)
        /\ cur' = [entry |-> e, summary |-> s, outcome |-> "SendFailed"]
        /\ file' = save_posted_links(Marked(load_posted_links(file, now).value,
                                            e.link, e.title, s, now))
    /\ idx' = idx + 1
    /\ UNCHANGED <<store_vars, hashed, unused_counters, sleeps,
                   posted_links, pc, feed_len, n_entries, new_posts_count,
                   skipped_duplicate_url, exit_code, now, run, delivered,
                   delivered_before>>

\* lines 598-666, 682-684: send_telegram_message returns False
SendFails ==
    /\ InLoop
    /\ \E e \in Entries : \E s \in extract_rich_summary(e) :
        /\ AtContentCheck(e, s)
        /\ ~is_duplicate_content(e.title, s, load_posted_links(file, now).value)
        /\ cur' = [entry |-> e, summary |-> s, outcome |-> "SendFailed"]
    /\ idx' = idx + 1
    /\ UNCHANGED <<store_vars, hashed, unused_counters, sleeps,
                   file, posted_links, pc, feed_len, n_entries, new_posts_count,
                   skipped_duplicate_url, exit_code, now, run, delivered,
                   delivered_before>>

\* lines 598-668: send_telegram_message returns True
SendOk ==
    /\ InLoop
    /\ \E e \in Entries : \E s \in extract_rich_summary(e) :
        /\ AtContentCheck(e, s)
        /\ ~is_duplicate_content(e.title, s, load_posted_links(file, now).value)
        /\ cur' = [entry |-> e, summary |-> s, outcome |-> "Sent"]
        /\ delivered' = Append(delivered, e.link)
    /\ pc' = "mark"
    /\ UNCHANGED <<store_vars, hashed, unused_counters, sleeps,
                   file, posted_links, feed_len, n_entries, idx, new_posts_count,
                   skipped_duplicate_url, exit_code, now, run, delivered_before>>

\* the file content mark_as_posted writes for the entry in hand (lines 93-100)
mark_as_posted(f, link, title, summary, clock) ==
    save_posted_links(Marked(load_posted_links(f, clock).value, link, title, summary, clock))

\* a variant of ShouldDelay that stops sleeping one post earlier
ShouldDelayUntilLastButOne(i, count, n) == i < n - 1 /\ count < n - 1

\* line 754, with i the loop index, count the new_posts_count just
\* incremented and n = len(entries_to_process)
ShouldDelay(i, count, n) == i < n - 1 /\ count < n

\* lines 669-681, 750-756: mark_as_posted completes, post_to_telegram returns
\* True, the counter goes up and the loop sleeps or moves on
MarkAsPosted ==
    /\ pc = "mark"
    /\ ~load_posted_links(file, now).raised
    /\ file' = mark_as_posted(file, cur.entry.link, cur.entry.title, cur.summary, now)
    /\ new_posts_count' = new_posts_count + 1
    /\ cur' = [cur EXCEPT !.outcome = "Post"]
    /\ IF ShouldDelay(idx, new_posts_count + 1, n_entries)
       THEN pc' = "delay" /\ idx' = idx
       ELSE pc' = "loop" /\ idx' = idx + 1
    /\ UNCHANGED <<store_vars, hashed, unused_counters, sleeps,
                   posted_links, feed_len, n_entries, skipped_duplicate_url,
                   exit_code, now, run, delivered, delivered_before>>

\* lines 69-70 inside mark_as_posted: open() or the write raises (IOError is not
\* caught); the file is as it was, or was truncated by open(..., "w")
MarkWriteFails ==
    /\ pc = "mark"
    /\ file' \in {file, FileInvalid}
    /\ cur' = [cur EXCEPT !.outcome = "WriteRaised"]
    /\ pc' = "crashed"
    /\ exit_code' = 1
    /\ UNCHANGED <<store_vars, hashed, unused_counters, sleeps,
                   posted_links, feed_len, n_entries, idx, new_posts_count,
                   skipped_duplicate_url, now, run, delivered, delivered_before>>

\* lines 754-756: time.sleep(POST_DELAY)
Delay ==
    /\ pc = "delay"
    /\ pc' = "loop"
    /\ idx' = idx + 1
    /\ sleeps' = sleeps + 1
    /\ UNCHANGED <<store_vars, hashed, unused_counters,
                   file, posted_links, feed_len, n_entries, new_posts_count,
                   skipped_duplicate_url, exit_code, now, run, cur, delivered,
                   delivered_before>>

\* lines 758-771: the summary is printed and the script ends
Finish ==
    /\ pc = "loop"
    /\ idx = n_entries
    /\ ~load_posted_links(file, now).raised
    /\ pc' = "done"
    /\ exit_code' = 0
    /\ UNCHANGED <<store_vars, hashed, unused_counters, sleeps,
                   file, posted_links, feed_len, n_entries, idx, new_posts_count,
                   skipped_duplicate_url, now, run, cur, delivered, delivered_before>>

\* the scheduler starts the script again, at once or hours later
NextRun ==
    /\ Terminated
    /\ run < MaxRuns
    /\ run' = run + 1
    /\ delivered_before' = delivered_before \cup {delivered[k] : k \in DOMAIN delivered}
    /\ pc' = "parse"
    /\ posted_links' = <<>>
    /\ feed_len' = 0
    /\ n_entries' = 0
    /\ idx' = 0
    /\ new_posts_count' = 0
    /\ skipped_duplicate_url' = 0
    /\ exit_code' = -1
    /\ cur' = NoCur
    /\ delivered' = <<>>
    /\ skipped_old' = 0
    /\ skipped_duplicate_content' = 0
    /\ sleeps' = 0
    /\ \E d \in 0..MaxTicks : now' = now + d
    /\ UNCHANGED <<store_vars, hashed, file>>

Next ==
    \/ ParseFeedEmpty
    \/ ParseFeed
    \/ LoadState
    \/ LoadStateRaises
    \/ HealthCheckOk
    \/ HealthCheckFails
    \/ EntryRaises
    \/ UrlSkip
    \/ SkipOld
    \/ SkipDuplicateContent
    \/ SendFails
    \/ SendOk
    \/ MarkAsPosted
    \/ MarkWriteFails
    \/ Delay
    \/ Finish

\* one invocation of the script
Spec == Init /\ [][Next]_vars

\* the script invoked again and again by its scheduler
NextRuns ==
    \/ Next
    \/ NextRun

SpecRuns == Init /\ [][NextRuns]_vars

----------------------------------------------------------------------------
(* The store operations on their own: load_posted_links and                *)
(* save_posted_links applied, in any order, to any state file.             *)

\* how many store operations one behaviour applies
MaxOps == 3

\* any state file, also one with more records than save would keep
StoreFiles ==
    ObjectFiles(MAX_RECORDS + 1, SubSeq(StoreLinks, 1, MAX_RECORDS + 2), JsonRecords)
    \cup OtherFiles

StoreInit ==
    /\ file \in StoreFiles
    /\ file0 = file
    /\ now = StartTime
    /\ run = 1
    /\ delivered_before = {}
    /\ StartOfRun
    /\ NoStoreOps

LastOp == IF trail = <<>> THEN "none" ELSE trail[Len(trail)]

\* load_posted_links() returns
StoreLoad ==
    /\ Len(trail) < MaxOps
    /\ ~load_raised
    /\ ~load_posted_links(file, now).raised
    /\ posted_links' = load_posted_links(file, now).value
    /\ trail' = Append(trail, "load")
    /\ UNCHANGED <<run_vars, hashed, file, now, saved, load_raised, file0>>

\* load_posted_links() raises
StoreLoadRaises ==
    /\ Len(trail) < MaxOps
    /\ ~load_raised
    /\ load_posted_links(file, now).raised
    /\ load_raised' = TRUE
    /\ trail' = Append(trail, "load")
    /\ UNCHANGED <<run_vars, hashed, file, now, posted_links, saved, file0>>

\* save_posted_links(posted_links) of the dict last loaded
StoreSave ==
    /\ Len(trail) < MaxOps
    /\ ~load_raised
    /\ LastOp = "load"
    /\ file' = save_posted_links(posted_links)
    /\ saved' = posted_links
    /\ trail' = Append(trail, "save")
    /\ UNCHANGED <<run_vars, hashed, now, posted_links, load_raised, file0>>

StoreNext ==
    \/ StoreLoad
    \/ StoreLoadRaises
    \/ StoreSave

SpecStore == StoreInit /\ [][StoreNext]_vars

----------------------------------------------------------------------------
(* The content fingerprint on its own: generate_content_hash applied to    *)
(* (title, summary) pairs.                                                 *)

\* how many pairs one behaviour fingerprints
MaxHashed == 2

\* titles and summaries that differ in case, punctuation, the underscore,
\* the amount of whitespace, and in where title ends and summary begins
HashTitles ==
    {<<"A", "!">>, <<"a">>, <<"a", "_", "b">>, <<"a", "b">>, <<"a", " ", " ", "B">>}
HashSummaries == {<<>>, <<"b">>, <<" ", "x", " ">>, <<"x">>}

HashInit ==
    /\ file = FileMissing
    /\ file0 = file
    /\ now = StartTime
    /\ run = 1
    /\ delivered_before = {}
    /\ StartOfRun
    /\ NoStoreOps

\* generate_content_hash(title, summary) is called
HashText ==
    /\ Len(hashed) < MaxHashed
    /\ \E title \in HashTitles : \E summary \in HashSummaries :
        hashed' = Append(hashed, [title |-> title, summary |-> summary,
                                  hash |-> generate_content_hash(title, summary)])
    /\ UNCHANGED <<run_vars, store_vars, file, posted_links, now>>

HashNext ==
    \/ HashText

SpecHash == HashInit /\ [][HashNext]_vars

----------------------------------------------------------------------------
(* Properties.  The helpers below read the state file and the entry        *)
(* directly, not through the operators that model the code.                *)

\* the URLs the persisted store holds
StoredLinks(f) ==
    CASE f.kind = "object" -> {f.members[k].link : k \in DOMAIN f.members}
      [] f.kind = "string" -> {f.s}
      [] OTHER -> {}

\* the persisted store holds fingerprint h under a URL other than link
StoredUnderOtherUrl(f, link, h) ==
    /\ f.kind = "object"
    /\ \E k \in DOMAIN f.members :
        /\ f.members[k].link # link
        /\ ~f.members[k].value.legacy
        /\ f.members[k].value.hash = h

\* the persisted store holds fingerprint h under any URL
StoredAnywhere(f, h) ==
    /\ f.kind = "object"
    /\ \E k \in DOMAIN f.members :
        ~f.members[k].value.legacy /\ f.members[k].value.hash = h

\* the date attributes of e that parse, and whether the first of them is
\* more than MAX_ARTICLE_AGE_HOURS before clock
Parseable(e) == {k \in DOMAIN e.dates : e.dates[k].k = "time"}
TooOld(e, clock) ==
    /\ Parseable(e) # {}
    /\ LET first == CHOOSE k \in Parseable(e) : \A j \in Parseable(e) : k <= j
       IN clock - e.dates[first].t > MAX_ARTICLE_AGE_HOURS

\* a step of the for loop that takes one entry; cur' is that entry
EntryStep == InLoop /\ (idx' = idx + 1 \/ pc' # "loop")

\* C1: an entry whose URL is already in the dedup store (here: in the state
\* file, at the moment the entry is taken up) is never delivered, whatever its
\* date, title and summary.  At pc = "mark" the entry in hand has just been
\* delivered and the file is still as it was when the entry was taken up.
C1_StoredUrlNeverDelivered ==
    pc = "mark" => cur.entry.link \notin StoredLinks(file)

\* C2: a fresh candidate whose URL is neither in the state file nor in the
\* loaded dict, and whose fingerprint the state file holds under another URL,
\* is skipped as duplicate content: nothing is delivered or counted and the
\* store stays as it is.
C2_DuplicateContentSkipped ==
    [][(/\ EntryStep
        /\ cur'.entry.has_link /\ cur'.entry.has_title
        /\ cur'.entry.link \notin StoredLinks(file)
        /\ cur'.entry.link \notin Links(posted_links)
        /\ ~TooOld(cur'.entry, now)
        /\ StoredUnderOtherUrl(file, cur'.entry.link,
                               generate_content_hash(cur'.entry.title, cur'.summary)))
       => (/\ cur'.outcome = "SkipDuplicateContent"
           /\ file' = file
           /\ posted_links' = posted_links
           /\ delivered' = delivered
           /\ new_posts_count' = new_posts_count)]_vars

\* C2 witness: an entry was skipped as duplicate content because of a record
\* that an earlier post of the same run wrote under another URL.
C2_Witness ==
    /\ cur.outcome = "SkipDuplicateContent"
    /\ \E k \in DOMAIN delivered :
        /\ delivered[k] # cur.entry.link
        /\ delivered[k] \notin StoredLinks(file0)
        /\ \E m \in DOMAIN file.members :
            /\ file.members[m].link = delivered[k]
            /\ file.members[m].value.hash =
                   generate_content_hash(cur.entry.title, cur.summary)

\* C3: a candidate (an entry with a link and a title) whose URL is not in the
\* loaded store is skipped as old exactly when its first parseable date is
\* more than MAX_ARTICLE_AGE_HOURS before now: never when no date parses, and
\* not when the age is exactly MAX_ARTICLE_AGE_HOURS.
C3_SkipOldIffTooOld ==
    [][(/\ EntryStep
        /\ cur'.entry.has_link /\ cur'.entry.has_title
        /\ cur'.entry.link \notin Links(posted_links))
       => (cur'.outcome = "SkipOld" <=> TooOld(cur'.entry, now))]_vars

\* C3 witness: an entry whose only parseable date is a date string, one hour
\* too old, was skipped as old.
C3_Witness ==
    /\ cur.outcome = "SkipOld"
    /\ cur.entry.dates[1] = BadDate
    /\ cur.entry.dates[6] = DateAt(now - MAX_ARTICLE_AGE_HOURS - 1)

C5_DeliveredIsRecorded ==
    pc \in {"loop", "delay", "done"}
        => \A k \in DOMAIN delivered : delivered[k] \in StoredLinks(file)

\* C6: no run delivers a link that an earlier run delivered.
C6_NoRepostInLaterRun ==
    \A k \in DOMAIN delivered : delivered[k] \notin delivered_before

\* C7: after save_posted_links(d) the file holds Min(Len(d), MAX_RECORDS)
\* records, each of them a record of d; none is dropped when d is within the
\* maximum; and no dropped record has a later timestamp than a kept one.
C7_SaveKeepsMostRecent ==
    LastOp = "save" =>
        /\ file.kind = "object"
        /\ Len(file.members) = Min(Len(saved), MAX_RECORDS)
        /\ \A m \in DOMAIN file.members : \E k \in DOMAIN saved :
            /\ saved[k].link = file.members[m].link
            /\ saved[k].info.timestamp = file.members[m].value.timestamp
        /\ \A k \in DOMAIN saved :
            saved[k].link \notin StoredLinks(file) =>
                /\ Len(saved) > MAX_RECORDS
                /\ \A m \in DOMAIN file.members :
                    saved[k].info.timestamp <= file.members[m].value.timestamp

\* C7 witness: a save dropped a record that is strictly older than a kept
\* one and was not the last of the dict.
C7_Witness ==
    /\ LastOp = "save"
    /\ Len(saved) > MAX_RECORDS
    /\ \E k \in 1..(Len(saved) - 1) :
        /\ saved[k].link \notin StoredLinks(file)
        /\ \E m \in DOMAIN file.members :
            saved[k].info.timestamp < file.members[m].value.timestamp

\* C8: load_posted_links never raises, and returns an empty store for a
\* file that is missing, is not JSON, or is JSON but not an object.
C8_LoadNeverRaises ==
    /\ ~load_raised
    /\ (trail = <<"load">> /\ file.kind \in {"missing", "invalid", "list"})
           => posted_links = <<>>

HealthCheckFailed == pc = "exited" /\ feed_len > 0

\* C10: a failed health check ends the process with code 1 before anything
\* was delivered; a run that ends otherwise without a new post (an empty
\* feed included) ends with code 0.
C10_ExitCodes ==
    /\ HealthCheckFailed => (exit_code = 1 /\ delivered = <<>> /\ file = file0)
    /\ (Terminated /\ ~HealthCheckFailed /\ new_posts_count = 0)
           => exit_code = 0

\* C11: a run that has entered the loop never ends before its summary: when
\* it has ended, every one of its n_entries entries has been examined and
\* the summary was reached, whatever failed for an entry on the way.
C11_BatchNeverAborted ==
    (Terminated /\ n_entries > 0) => (pc = "done" /\ idx = n_entries)

\* C12: when an entry is delivered, the run has slept once for each entry it
\* delivered before (so a sleep lies between any two consecutive deliveries);
\* the run goes to sleep only straight after a successful post, and each
\* sleep is one call of time.sleep(POST_DELAY); an entry that is skipped, or
\* whose delivery fails, is followed by the next entry without a sleep.
C12_DelayBetweenPosts ==
    [][/\ (pc = "loop" /\ pc' = "mark") => sleeps = Len(delivered)
       /\ (pc' = "delay" /\ pc # "delay") => (pc = "mark" /\ cur'.outcome = "Post")
       /\ sleeps' # sleeps => (pc = "delay" /\ cur.outcome = "Post" /\ sleeps' = sleeps + 1)
       /\ (EntryStep /\ cur'.outcome \in {"SkipDuplicateUrl", "SkipOld",
                                           "SkipDuplicateContent", "SendFailed"})
              => (pc' = "loop" /\ sleeps' = sleeps)]_vars

\* C12 witness: a second entry was delivered in a run, after one sleep.
C12_Witness ==
    /\ pc = "mark"
    /\ Len(delivered) = 2
    /\ sleeps = 1

\* C13: the counters of the summary follow the decisions: an entry skipped
\* as old adds one to skipped_old, one skipped for its URL adds one to
\* skipped_duplicate_url, one skipped for its content adds one to
\* skipped_duplicate_content, and when the summary is reached
\* new_posts_count is the number of successful deliveries.
C13_SummaryCountsDecisions ==
    [][/\ (EntryStep /\ cur'.outcome = "SkipOld") => skipped_old' = skipped_old + 1
       /\ (EntryStep /\ cur'.outcome = "SkipDuplicateUrl")
              => skipped_duplicate_url' = skipped_duplicate_url + 1
       /\ (EntryStep /\ cur'.outcome = "SkipDuplicateContent")
              => skipped_duplicate_content' = skipped_duplicate_content + 1
       /\ pc' = "done" => new_posts_count' = Len(delivered')]_vars

\* the characters that are letters or digits
IsAlnum(c) == c \in {"a", "b", "A", "B", "x", "1"}

\* s without the characters that are neither alphanumeric nor whitespace
RECURSIVE KeepAlnumAndSpace(_)
KeepAlnumAndSpace(s) ==
    IF s = <<>> THEN <<>>
    ELSE IF IsAlnum(Head(s)) \/ Head(s) = Space
         THEN <<Head(s)>> \o KeepAlnumAndSpace(Tail(s))
         ELSE KeepAlnumAndSpace(Tail(s))

\* the text of a (title, summary) pair after joining the two with one space,
\* lowercasing, dropping what is neither alphanumeric nor whitespace,
\* collapsing whitespace runs and trimming
AlnumText(title, summary) ==
    Strip(CollapseSpaces(KeepAlnumAndSpace(MapLower(title \o <<Space>> \o summary))))

\* C14: two (title, summary) pairs have the same fingerprint if and only if
\* their texts are the same once joined with one space, lowercased, stripped
\* of every character that is neither alphanumeric nor whitespace, with
\* whitespace runs collapsed and the ends trimmed.
C14_FingerprintIffSameText ==
    \A i \in DOMAIN hashed : \A j \in DOMAIN hashed :
        hashed[i].hash = hashed[j].hash
            <=> AlnumText(hashed[i].title, hashed[i].summary)
                    = AlnumText(hashed[j].title, hashed[j].summary)

\* C15: within one run no link is delivered twice.
C15_NoUrlTwiceInRun ==
    \A j \in DOMAIN delivered : \A k \in DOMAIN delivered :
        j # k => delivered[j] # delivered[k]

\* C16: when mark_as_posted has returned for an entry (its outcome is Post),
\* the state file holds a record for the entry's link, whatever the file
\* held before.
C16_MarkedIsStored ==
    cur.outcome = "Post" => cur.entry.link \in StoredLinks(file)

====
